---- MODULE Spec2Model ----
(***************************************************************************)
(* Model of pfs_extract (src/pfsextractor.cpp), the recursive extractor of *)
(* Dell PFS firmware containers.                                           *)
(*                                                                         *)
(* The input file is an immutable byte buffer.  The model keeps offsets    *)
(* and sizes exact (16-byte file header and footer, 72-byte section        *)
(* header, 0x248-byte chunk prefix, order number at 0x3E) and describes    *)
(* the buffer by what lies at each offset: a container is a file header    *)
(* followed by a chain of section headers, each followed by its four       *)
(* blocks; a data block is itself described as a container (whose          *)
(* signature may or may not be "PFS.HDR.").  Bytes are never copied: a     *)
(* write or a chunk is a range [lo, lo + n) of the input buffer.           *)
(*                                                                         *)
(* size_t and pointers are 64 bit wide (LP64 build), so sums of 32-bit     *)
(* size fields do not wrap; sectionNum is a uint8_t and does wrap.         *)
(* printf output is diagnostic only and is not part of the state.          *)
(***************************************************************************)
EXTENDS Integers, Sequences, FiniteSets, TLC

VARIABLES
    file,      \* the input: size and content description of the loaded buffer
    stack,     \* activation records of pfs_extract, innermost last
    trace,     \* history: calls, reads, Output Sink writes, returns, in order
    result,    \* <<r>> once the outermost pfs_extract has returned r, <<>> before
    crashed,   \* the process was ended by undefined behaviour
    vin,       \* version decoder input  (pure-function specification)
    vout       \* version decoder output (pure-function specification)

vars == <<file, stack, trace, result, crashed, vin, vout>>

----------------------------------------------------------------------------
(* Program constants *)

\* sizeof(PFS_FILE_HEADER)
HeaderSize == 16
\* sizeof(PFS_FILE_FOOTER)
FooterSize == 16
\* sizeof(PFS_SECTION_HEADER)
SectionHeaderSize == 72
\* bytes of a subsection chunk before its payload (0x248)
ChunkPrefix == 584
\* offset of the chunk order number (0x3E)
OrderOffset == 62
\* sizeof(uint16_t), the width of the order number
OrderSize == 2
\* sizeof(uint64_t), the width of the signature compared at a data block
SignatureSize == 8
\* number of values of uint8_t sectionNum
SectionNumModulus == 256
\* number of version components of a section header
VersionComponents == 4

(* Bounds of the model *)

\* sections in a top-level container without nested containers
MaxSections == 2
\* sections (chunks) in a nested container
MaxChunks == 2

----------------------------------------------------------------------------
(* Formatted numbers and versions are sequences of one-character strings;  *)
(* file names are strings.                                                 *)

HexDigits == <<"0","1","2","3","4","5","6","7","8","9","A","B","C","D","E","F">>

RECURSIVE Hex(_)
\* sprintf "%X"
Hex(n) ==
    IF n < 16 THEN <<HexDigits[n + 1]>>
    ELSE Hex(n \div 16) \o <<HexDigits[(n % 16) + 1]>>

RECURSIVE Dec(_)
\* sprintf "%d" of a non-negative value
Dec(n) ==
    IF n < 10 THEN <<HexDigits[n + 1]>>
    ELSE Dec(n \div 10) \o <<HexDigits[(n % 10) + 1]>>

\* character codes of the version type tags
TagA == 65
TagN == 78
TagSpace == 32
TagNul == 0

RECURSIVE VersionLoopNoStop(_, _, _, _)
\* mutant: a space or NUL tag is skipped instead of ending the loop
VersionLoopNoStop(vt, vv, i, acc) ==
    IF i > VersionComponents THEN acc
    ELSE IF vt[i] = TagA
         THEN VersionLoopNoStop(vt, vv, i + 1, acc \o Hex(vv[i]) \o <<".">>)
    ELSE IF vt[i] = TagN
         THEN VersionLoopNoStop(vt, vv, i + 1, acc \o Dec(vv[i]) \o <<".">>)
    ELSE VersionLoopNoStop(vt, vv, i + 1, acc)

RECURSIVE VersionLoop(_, _, _, _)
\* the for loop over the four version components; acc is char version[30]
VersionLoop(vt, vv, i, acc) ==
    IF i > VersionComponents THEN acc
    ELSE IF vt[i] = TagA
         THEN VersionLoop(vt, vv, i + 1, acc \o Hex(vv[i]) \o <<".">>)
    ELSE IF vt[i] = TagN
         THEN VersionLoop(vt, vv, i + 1, acc \o Dec(vv[i]) \o <<".">>)
    ELSE IF vt[i] = TagSpace \/ vt[i] = TagNul
         THEN acc
    ELSE VersionLoop(vt, vv, i + 1, acc)

\* the version string used in file names: "." when nothing was decoded
DecodeVersion(vt, vv) ==
    LET version == VersionLoop(vt, vv, 1, <<>>)
    IN  IF version # <<>> THEN version ELSE <<".">>

RECURSIVE Join(_)
\* the characters of s as one string
Join(s) == IF s = <<>> THEN "" ELSE s[1] \o Join(Tail(s))

\* sprintf(filename, "section_%d_%s<suffix>", sectionNum, version)
FileName(num, version, suffix) ==
    "section_" \o Join(Dec(num)) \o "_" \o Join(version) \o suffix

----------------------------------------------------------------------------
(* The input buffer.                                                       *)
(*                                                                         *)
(* A container description says what the bytes of a buffer hold when they  *)
(* are read as a PFS container: whether the first 8 bytes are "PFS.HDR."   *)
(* (sig), the header version (hv), the header DataSize (ds) and the chain  *)
(* of sections that starts right after the file header (secs).  The chain  *)
(* is laid out by the sizes the section headers declare, whatever ds says, *)
(* so a chain may end before, at or past the end of the data region.       *)
(* A section description holds the header fields the extractor reads: the  *)
(* version type tags (vt) and values (vv), the four block sizes (sz: data, *)
(* data signature, metadata, metadata signature), the description of its   *)
(* data block as a container (inner) and the 16-bit value found at offset  *)
(* 0x3E of its data block (order).                                         *)

\* a data block that does not begin with "PFS.HDR."
Plain == [sig |-> FALSE, hv |-> 0, ds |-> 0, secs |-> <<>>]
\* a data block that begins with "PFS.HDR." and holds nothing more of interest
Signed == [sig |-> TRUE, hv |-> 1, ds |-> 0, secs |-> <<>>]

Sec(ver, sz, inner, order) ==
    [vt |-> ver.vt, vv |-> ver.vv, sz |-> sz, inner |-> inner, order |-> order]

\* header and the four blocks: the bytes from one section header to the next
Span(s) == SectionHeaderSize + s.sz[1] + s.sz[2] + s.sz[3] + s.sz[4]

RECURSIVE SpanRange(_, _, _)
\* bytes taken by sections a..b of a chain
SpanRange(secs, a, b) ==
    IF a > b THEN 0
    ELSE IF a = b THEN Span(secs[a])
    ELSE SpanRange(secs, a, (a + b) \div 2) + SpanRange(secs, (a + b) \div 2 + 1, b)

\* bytes taken by the first k sections of a chain
SpanSum(secs, k) == SpanRange(secs, 1, k)

\* offset of the k-th section header of a container whose buffer starts at base
SecStart(base, secs, k) == base + HeaderSize + SpanSum(secs, k - 1)

\* what a section header read finds where the description places no header
JunkSection ==
    [vt |-> <<0, 0, 0, 0>>, vv |-> <<0, 0, 0, 0>>, sz |-> <<0, 0, 0, 0>>,
     inner |-> Plain, order |-> 0]

RECURSIVE FindSection(_, _, _, _)
\* the number of the section whose header starts at offset off, searching from
\* section k, which starts at offset start; 0 when no header starts there
FindSection(secs, k, start, off) ==
    IF k > Len(secs) \/ start > off THEN 0
    ELSE IF start = off THEN k
    ELSE FindSection(secs, k + 1, start + Span(secs[k]), off)

\* the section header found at offset off: the overlay (PFS_SECTION_HEADER*)off
HeaderAt(c, base, off) ==
    LET k == FindSection(c.secs, 1, base + HeaderSize, off)
    IN  IF k = 0 THEN JunkSection ELSE c.secs[k]

----------------------------------------------------------------------------
(* The inputs explored. *)

\* bytes by which a truncated container's DataSize falls short of its chain
CutBytes == 20
\* a buffer shorter than header plus footer
TinySize == 20

SeqUpTo(S, n) == UNION {[1..k -> S] : k \in 0..n}

\* version "2.10." and the empty version, printed "."
VerA == [vt |-> <<TagA, TagN, TagNul, TagNul>>, vv |-> <<2, 10, 0, 0>>]
VerNone == [vt |-> <<TagNul, TagNul, TagNul, TagNul>>, vv |-> <<0, 0, 0, 0>>]

\* sections of a nested container: data blocks shorter than 0x40, shorter
\* than 0x248, of exactly 0x248 and longer; equal and different order numbers
ChunkSecs ==
    {Sec(VerNone, <<48, 0, 0, 0>>, Plain, 0),
     Sec(VerNone, <<256, 0, 0, 0>>, Plain, 1),
     Sec(VerNone, <<ChunkPrefix, 0, 0, 0>>, Plain, 0),
     Sec(VerNone, <<ChunkPrefix + 2, 0, 0, 0>>, Plain, 0),
     Sec(VerNone, <<ChunkPrefix + 2, 0, 0, 0>>, Plain, 1),
     Sec(VerA, <<ChunkPrefix + 3, 1, 1, 1>>, Signed, 0),
     Sec(VerNone, <<0, 1, 1, 1>>, Plain, 0)}

\* data blocks that begin with "PFS.HDR.": the block's container and its size
NestedBlocks ==
    LET chains == SeqUpTo(ChunkSecs, MaxChunks)
        whole == {[c |-> [sig |-> TRUE, hv |-> 1,
                          ds |-> SpanSum(s, Len(s)), secs |-> s],
                   size |-> HeaderSize + SpanSum(s, Len(s)) + FooterSize] :
                  s \in chains}
        cut == {[c |-> [sig |-> TRUE, hv |-> 1,
                        ds |-> SpanSum(s, Len(s)) - CutBytes, secs |-> s],
                 size |-> HeaderSize + SpanSum(s, Len(s)) - CutBytes + FooterSize] :
                s \in chains \ {<<>>}}
        bad == {[c |-> [sig |-> TRUE, hv |-> 2, ds |-> 0, secs |-> <<>>],
                 size |-> HeaderSize + FooterSize],
                [c |-> [sig |-> TRUE, hv |-> 1, ds |-> 5, secs |-> <<>>],
                 size |-> HeaderSize + 4 + FooterSize],
                [c |-> Signed, size |-> TinySize],
                [c |-> Signed, size |-> 4]}
    IN  whole \cup cut \cup bad

\* sections that hold a nested container
NestedSecs ==
    {Sec(VerA, <<b.size, o[1], o[2], o[3]>>, b.c, 0) :
        b \in NestedBlocks, o \in {<<0, 0, 0>>, <<3, 5, 7>>}}

\* sections without a nested container
FlatSecs ==
    {Sec(v, <<d, o[1], o[2], o[3]>>, Plain, 0) :
        v \in {VerA, VerNone}, d \in {0, 4}, o \in {<<0, 0, 0>>, <<3, 5, 7>>}}
    \cup {Sec(VerA, <<4, 3, 5, 7>>, Signed, 0), Sec(VerA, <<0, 3, 0, 0>>, Plain, 0)}

\* the files built on one chain of sections: well formed, with slack after the
\* footer, with a DataSize that ends inside the last section (the buffer ending
\* with it, or holding the whole chain), with a DataSize that ends inside the
\* last section header, and the files the validation rejects
FilesOn(s) ==
    LET total == SpanSum(s, Len(s))
        File(sig, hv, ds, size) ==
            [size |-> size, c |-> [sig |-> sig, hv |-> hv, ds |-> ds, secs |-> s]]
        full == HeaderSize + total + FooterSize
    IN  {File(TRUE, 1, total, full),
         File(TRUE, 1, total, full + 8),
         File(FALSE, 1, total, full),
         File(TRUE, 2, total, full),
         File(TRUE, 1, total, full - 1),
         File(FALSE, 1, total, full - 1),
         File(TRUE, 1, total, TinySize)}
        \cup (IF s = <<>> THEN {}
              ELSE {File(TRUE, 1, total - CutBytes, full - CutBytes),
                    File(TRUE, 1, total - CutBytes, full),
                    File(TRUE, 1, SpanSum(s, Len(s) - 1) + CutBytes,
                         HeaderSize + SpanSum(s, Len(s) - 1) + CutBytes + FooterSize)})

\* a section with a signature block only
SignOnly == Sec(VerA, <<0, 1, 0, 0>>, Plain, 0)

\* a well-formed file of more sections than uint8_t sectionNum has values
LongFile ==
    [size |-> HeaderSize + (SectionNumModulus + 1) * Span(SignOnly) + FooterSize,
     c |-> [sig |-> TRUE, hv |-> 1, ds |-> (SectionNumModulus + 1) * Span(SignOnly),
            secs |-> [k \in 1..(SectionNumModulus + 1) |-> SignOnly]]]

\* a well-formed file on a chain of sections
WholeFile(s) ==
    [size |-> HeaderSize + SpanSum(s, Len(s)) + FooterSize,
     c |-> [sig |-> TRUE, hv |-> 1, ds |-> SpanSum(s, Len(s)), secs |-> s]]

\* a file whose DataSize and size end CutBytes before the end of its chain
CutFile(s) ==
    [size |-> HeaderSize + SpanSum(s, Len(s)) - CutBytes + FooterSize,
     c |-> [sig |-> TRUE, hv |-> 1, ds |-> SpanSum(s, Len(s)) - CutBytes, secs |-> s]]

Files ==
    UNION {FilesOn(s) : s \in SeqUpTo(FlatSecs, MaxSections)}
    \cup {WholeFile(<<n, SignOnly>>) : n \in NestedSecs}
    \cup {WholeFile(<<SignOnly, n>>) : n \in NestedSecs}
    \cup {CutFile(<<n>>) : n \in NestedSecs}
    \cup {LongFile}

----------------------------------------------------------------------------
(* pfs_extract.                                                            *)
(*                                                                         *)
(* An activation record holds the arguments (base: offset of buffer in the *)
(* input file, size: bufferSize, target: filename, "" for NULL), what      *)
(* the buffer holds (c), the locals (sub: isSubsection, dataEnd, hdr:      *)
(* sectionHeader, num: sectionNum, chunks, ver: version, cur: the fields   *)
(* of *sectionHeader) and the position in the function (pc).               *)
(*                                                                         *)
(* Every access to the buffer is recorded in trace with its byte range;    *)
(* ub marks an access whose behaviour is undefined: a range that leaves    *)
(* the loaded file, or a chunk range whose end lies before its start.      *)
(* Such an access either goes on with what the description holds at that   *)
(* place or ends the process (Crash).                                      *)

NoFile == [size |-> 0, c |-> Plain]
NoVersion == [vt |-> <<0, 0, 0, 0>>, vv |-> <<0, 0, 0, 0>>]

Top == stack[Len(stack)]
Depth == Len(stack)

InFile(lo, n) == lo + n <= file.size

ReadEv(what, lo, n, num, blk) ==
    [e |-> "read", d |-> Depth, what |-> what, lo |-> lo, n |-> n, num |-> num,
     blk |-> blk, val |-> 0, ub |-> ~InFile(lo, n)]

WriteEv(name, lo, n, num) ==
    [e |-> "write", d |-> Depth, name |-> name, src |-> <<[lo |-> lo, n |-> n]>>,
     num |-> num, ub |-> ~InFile(lo, n)]

CallEv(F) ==
    [e |-> "call", d |-> Depth + 1, base |-> F.base, size |-> F.size,
     target |-> F.target]

RetEv(r) == [e |-> "ret", d |-> Depth, r |-> r]

Frame(base, size, target, c) ==
    [base |-> base, size |-> size, target |-> target, c |-> c,
     sub |-> (target # ""), pc |-> "entry", dataEnd |-> 0, hdr |-> 0,
     num |-> 0, chunks |-> <<>>, ver |-> <<>>, cur |-> JunkSection]

\* bufferSize < sizeof(PFS_FILE_HEADER) + sizeof(PFS_FILE_FOOTER)
TooSmallForHeaders(size) == size < HeaderSize + FooterSize

\* mutant: the footer is left out of the size check
TooSmallForImageNoFooter(size, ds) == size < HeaderSize + ds

\* bufferSize < sizeof(PFS_FILE_HEADER) + fileHeader->DataSize + sizeof(PFS_FILE_FOOTER)
TooSmallForImage(size, ds) == size < HeaderSize + ds + FooterSize

\* mutant: a failed nested pass ends the walk of its caller
ResumeStopsOnFailure(parent, r) ==
    IF r # 0 THEN [parent EXCEPT !.pc = "loop", !.hdr = parent.dataEnd] ELSE parent

\* the caller after pfs_extract(ptr, ...) returned r: the value is not used
Resume(parent, r) == parent

\* return r: the activation record is dropped and the caller goes on
Return(r, events) ==
    /\ trace' = trace \o events \o <<RetEv(r)>>
    /\ stack' = IF Depth = 1 THEN <<>>
                ELSE [SubSeq(stack, 1, Depth - 1) EXCEPT
                        ![Depth - 1] = Resume(stack[Depth - 1], r)]
    /\ result' = IF Depth = 1 THEN <<r>> ELSE result

\* the top activation record becomes F
Goto(F, events) ==
    /\ trace' = trace \o events
    /\ stack' = [stack EXCEPT ![Depth] = F]
    /\ result' = result

\* the accesses of the argument and header checks, in program order
ValidateEvents(F) ==
    IF TooSmallForHeaders(F.size) THEN <<>>
    ELSE <<ReadEv("header", F.base, HeaderSize, 0, <<F.base, F.size>>)>> \o
         (IF ~F.c.sig \/ F.c.hv # 1 \/ TooSmallForImage(F.size, F.c.ds) THEN <<>>
          ELSE <<ReadEv("footer", F.base + HeaderSize + F.c.ds, FooterSize, 0,
                        <<F.base, F.size>>)>>)

\* from the entry of pfs_extract to the first test of the while loop
Validate ==
    /\ ~crashed /\ stack # <<>> /\ Top.pc = "entry"
    /\ LET F == Top
           ev == ValidateEvents(F)
       IN  IF TooSmallForHeaders(F.size) THEN Return(1, ev)
           ELSE IF ~F.c.sig THEN Return(1, ev)
           ELSE IF F.c.hv # 1 THEN Return(1, ev)
           ELSE IF TooSmallForImage(F.size, F.c.ds) THEN Return(1, ev)
           ELSE Goto([F EXCEPT !.pc = "loop",
                               !.dataEnd = F.base + HeaderSize + F.c.ds,
                               !.hdr = F.base + HeaderSize,
                               !.num = 0,
                               !.chunks = <<>>], ev)
    /\ UNCHANGED <<file, crashed, vin, vout>>

\* mutant: the raw data block is not written
NormalDataEventsNoWrite(num, version, ptr, size) ==
    <<ReadEv("magic", ptr, SignatureSize, num, <<ptr, size>>)>>

\* the accesses of a section's data block outside a subsection: the raw data
\* is written, then its first 8 bytes are compared with "PFS.HDR."
NormalDataEvents(num, version, ptr, size) ==
    <<WriteEv(FileName(num, version, "data"), ptr, size, num),
      ReadEv("magic", ptr, SignatureSize, num, <<ptr, size>>)>>

\* the accesses of a section's data block in a subsection: the order number at
\* 0x3E and the bytes from 0x248 to the end of the block
ChunkDataEvents(num, orderNum, ptr, size) ==
    <<[ReadEv("order", ptr + OrderOffset, OrderSize, num, <<ptr, size>>)
         EXCEPT !.val = orderNum],
      [ReadEv("chunk", ptr + ChunkPrefix, size - ChunkPrefix, num, <<ptr, size>>)
         EXCEPT !.ub = size < ChunkPrefix \/ ~InFile(ptr + ChunkPrefix, size - ChunkPrefix)]>>

\* std::vector<char>(ptr + 0x248, ptr + DataSize) with its order number
Chunk(orderNum, ptr, size) ==
    [orderNum |-> orderNum,
     data |-> [lo |-> ptr + ChunkPrefix,
               n |-> IF size < ChunkPrefix THEN 0 ELSE size - ChunkPrefix]]

\* the accesses of one loop iteration up to the end of the data block handling
SectionDataEvents(F) ==
    LET h == HeaderAt(F.c, F.base, F.hdr)
        ptr == F.hdr + SectionHeaderSize
    IN  <<ReadEv("section", F.hdr, SectionHeaderSize, F.num, <<F.base, F.size>>)>> \o
        (IF h.sz[1] = 0 THEN <<>>
         ELSE IF F.sub THEN ChunkDataEvents(F.num, h.order, ptr, h.sz[1])
         ELSE NormalDataEvents(F.num, DecodeVersion(h.vt, h.vv), ptr, h.sz[1]))

\* one loop iteration from the loop test to the end of the data block handling
SectionData ==
    /\ ~crashed /\ stack # <<>> /\ Top.pc = "loop" /\ Top.hdr < Top.dataEnd
    /\ LET F == Top
           h == HeaderAt(F.c, F.base, F.hdr)
           version == DecodeVersion(h.vt, h.vv)
           ptr == F.hdr + SectionHeaderSize
           G == [F EXCEPT !.pc = "rest", !.cur = h, !.ver = version]
           ev == SectionDataEvents(F)
       IN  IF h.sz[1] # 0 /\ F.sub
           THEN Goto([G EXCEPT !.chunks = Append(F.chunks,
                                    Chunk(h.order, ptr, h.sz[1]))], ev)
           ELSE IF h.sz[1] # 0 /\ h.inner.sig
           THEN LET N == Frame(ptr, h.sz[1],
                               FileName(F.num, version, "payload"), h.inner)
                IN  /\ trace' = trace \o ev \o <<CallEv(N)>>
                    /\ stack' = Append([stack EXCEPT ![Depth] = G], N)
                    /\ result' = result
           ELSE Goto(G, ev)
    /\ UNCHANGED <<file, crashed, vin, vout>>

\* mutant: the blocks are written in a subsection too
EmitsBlockAlways(sub, size) == size # 0

\* whether a signature, metadata or metadata signature block is written
EmitsBlock(sub, size) == size # 0 /\ ~sub

\* mutant: the metadata signature block is not skipped
NextHeaderNoMtsg(hdr, sz) == hdr + SectionHeaderSize + sz[1] + sz[2] + sz[3]

\* sectionHeader after the four blocks of the section at hdr
NextHeader(hdr, sz) == hdr + SectionHeaderSize + sz[1] + sz[2] + sz[3] + sz[4]

\* sectionNum++ on a uint8_t
NextSectionNum(num) == (num + 1) % SectionNumModulus

\* the accesses of the rest of a loop iteration
SectionRestEvents(F) ==
    LET sz == F.cur.sz
        p2 == F.hdr + SectionHeaderSize + sz[1]
        p3 == p2 + sz[2]
        p4 == p3 + sz[3]
    IN  (IF EmitsBlock(F.sub, sz[2])
         THEN <<WriteEv(FileName(F.num, F.ver, "sign"), p2, sz[2], F.num)>>
         ELSE <<>>) \o
        (IF EmitsBlock(F.sub, sz[3])
         THEN <<WriteEv(FileName(F.num, F.ver, "meta"), p3, sz[3], F.num)>>
         ELSE <<>>) \o
        (IF EmitsBlock(F.sub, sz[4])
         THEN <<WriteEv(FileName(F.num, F.ver, "mtsg"), p4, sz[4], F.num)>>
         ELSE <<>>)

\* the rest of a loop iteration: the three other blocks, then the next header
SectionRest ==
    /\ ~crashed /\ stack # <<>> /\ Top.pc = "rest"
    /\ LET F == Top
       IN  Goto([F EXCEPT !.pc = "loop",
                          !.num = NextSectionNum(F.num),
                          !.hdr = NextHeader(F.hdr, F.cur.sz)],
                SectionRestEvents(F))
    /\ UNCHANGED <<file, crashed, vin, vout>>

\* what std::sort may leave: any arrangement in which no chunk precedes a
\* chunk of smaller order number; the order of equal chunks is unspecified
SortOutcomes(chunks) ==
    LET n == Len(chunks)
    IN  {[i \in 1..n |-> chunks[p[i]]] : p \in
            {q \in Permutations(1..n) :
                \A i, j \in 1..n : i < j => ~(chunks[q[j]].orderNum < chunks[q[i]].orderNum)}}

\* out: the data of the chunks one after the other
Concat(chunks) == [i \in 1..Len(chunks) |-> chunks[i].data]

\* the loop has ended: a subsection writes its sorted chunks; return 0
Finish ==
    /\ ~crashed /\ stack # <<>> /\ Top.pc = "loop" /\ ~(Top.hdr < Top.dataEnd)
    /\ LET F == Top
       IN  IF F.sub
           THEN \E sorted \in SortOutcomes(F.chunks) :
                   Return(0, <<[e |-> "write", d |-> Depth, name |-> F.target,
                                src |-> Concat(sorted), num |-> F.num, ub |-> FALSE]>>)
           ELSE Return(0, <<>>)
    /\ UNCHANGED <<file, crashed, vin, vout>>

\* the accesses of the next step of the top activation record
StepEvents ==
    IF Top.pc = "entry" THEN ValidateEvents(Top)
    ELSE IF Top.pc = "rest" THEN SectionRestEvents(Top)
    ELSE IF Top.hdr < Top.dataEnd THEN SectionDataEvents(Top)
    ELSE <<>>

\* an access with undefined behaviour ends the process; what the step did
\* before it has happened
Crash ==
    /\ ~crashed /\ stack # <<>>
    /\ \E i \in 1..Len(StepEvents) :
        /\ StepEvents[i].ub
        /\ trace' = trace \o SubSeq(StepEvents, 1, i - 1)
    /\ crashed' = TRUE
    /\ UNCHANGED <<file, stack, result, vin, vout>>

\* main has loaded the file and calls pfs_extract(buffer, filesize, NULL)
Init ==
    /\ file \in Files
    /\ stack = <<Frame(0, file.size, "", file.c)>>
    /\ trace = <<[e |-> "call", d |-> 1, base |-> 0, size |-> file.size,
                  target |-> ""]>>
    /\ result = <<>>
    /\ crashed = FALSE
    /\ vin = NoVersion
    /\ vout = <<>>

Next == Validate \/ SectionData \/ SectionRest \/ Finish \/ Crash

Spec == Init /\ [][Next]_vars

----------------------------------------------------------------------------
(* Reading the history.                                                    *)
(* A pass is one activation of pfs_extract: its call event, the events of  *)
(* its depth that follow, and its return event when it has returned.       *)

Calls == {i \in 1..Len(trace) : trace[i].e = "call"}

\* the return event of the pass called at i, 0 while it has not returned
RetOf(i) ==
    LET later == {j \in (i + 1)..Len(trace) :
                    trace[j].e = "ret" /\ trace[j].d = trace[i].d}
    IN  IF later = {} THEN 0 ELSE CHOOSE j \in later : \A k \in later : j <= k

\* the last event of the pass called at i so far
SegEnd(i) == IF RetOf(i) = 0 THEN Len(trace) ELSE RetOf(i)

\* the events of the pass called at i, without those of passes it called
PassEvents(i) == {k \in (i + 1)..SegEnd(i) : trace[k].d = trace[i].d}

\* what the buffer of the pass called at i holds: the file, or the data block
\* of the section of the file that precedes the buffer
Container(i) ==
    IF trace[i].d = 1 THEN file.c
    ELSE HeaderAt(file.c, 0, trace[i].base - SectionHeaderSize).inner

IsWrite(k) == trace[k].e = "write"
IsRead(k, what) == trace[k].e = "read" /\ trace[k].what = what

----------------------------------------------------------------------------
\* C1: a pass over a buffer shorter than header + DataSize + footer (or
\* shorter than header + footer) returns the failure value 1 and makes no
\* Output Sink write: between its call and its return it only reads the file
\* header, and while it has not returned it is still in its argument checks.
C1_TooSmallFailsWithoutWrites ==
    \A i \in Calls :
        (trace[i].size < HeaderSize + FooterSize
         \/ HeaderSize + Container(i).ds + FooterSize > trace[i].size)
        => /\ \A k \in (i + 1)..SegEnd(i) :
                \/ IsRead(k, "header")
                \/ trace[k].e = "ret" /\ trace[k].r = 1 /\ k = RetOf(i)
           /\ (RetOf(i) = 0 /\ ~crashed) =>
                (Depth = trace[i].d /\ Top.pc = "entry")
           /\ (trace[i].d = 1 /\ result # <<>>) => result = <<1>>

\* a buffer with a valid header whose DataSize does not fit has been rejected
C1_Witness ==
    \E i \in Calls :
        /\ trace[i].size >= HeaderSize + FooterSize
        /\ Container(i).sig /\ Container(i).hv = 1
        /\ HeaderSize + Container(i).ds + FooterSize > trace[i].size
        /\ RetOf(i) # 0 /\ trace[RetOf(i)].r = 1
        /\ trace[i].d = 1 /\ result = <<1>>

----------------------------------------------------------------------------
\* the container of the pass called at i is well formed: valid header, a
\* DataSize equal to the bytes of its sections, a buffer that holds it all
WellFormed(i) ==
    /\ Container(i).sig /\ Container(i).hv = 1
    /\ Container(i).ds = SpanSum(Container(i).secs, Len(Container(i).secs))
    /\ trace[i].size >= HeaderSize + Container(i).ds + FooterSize

\* the section header reads of the pass called at i, in order
SectionReads(i) ==
    LET InPass(ev) == ev.d = trace[i].d /\ ev.e = "read" /\ ev.what = "section"
    IN  SelectSeq(SubSeq(trace, i + 1, SegEnd(i)), InPass)

\* C5: a container built as header + N sections + footer, DataSize being the
\* sum of the section spans (72 + the four block sizes), is walked in exactly
\* N iterations: the first section header is read at offset 16 and the k-th
\* one span after the (k-1)-th, that is at 16 + the spans of sections 0..k-1;
\* a pass that returns has read N headers and returns 0, the loop ends with
\* sectionHeader exactly at dataEnd, and no step of the walk of a well-formed
\* file leaves the file.
C5_WalkRoundTrip ==
    \A i \in Calls :
        WellFormed(i) =>
            LET R == SectionReads(i)
                secs == Container(i).secs
                F == stack[trace[i].d]
            IN  /\ Len(R) <= Len(secs)
                /\ \A k \in 1..Len(R) :
                      R[k].lo = IF k = 1 THEN trace[i].base + HeaderSize
                                ELSE R[k - 1].lo + Span(secs[k - 1])
                /\ RetOf(i) # 0 => (Len(R) = Len(secs) /\ trace[RetOf(i)].r = 0)
                /\ (trace[i].d = 1 /\ Depth = 1 /\ ~crashed) =>
                      \A q \in 1..Len(StepEvents) : ~StepEvents[q].ub
                /\ (RetOf(i) = 0 /\ ~crashed /\ F.pc = "loop") =>
                      /\ F.hdr <= F.dataEnd
                      /\ F.hdr = F.dataEnd => Len(R) = Len(secs)
                      /\ F.hdr = SecStart(trace[i].base, secs, Len(R) + 1)

\* a well-formed file of two sections with non-empty blocks has been walked
C5_Witness ==
    /\ result = <<0>>
    /\ WellFormed(1)
    /\ Len(file.c.secs) = 2
    /\ file.c.secs[1].sz = <<4, 3, 5, 7>>
    /\ Len(SectionReads(1)) = 2

\* C7: a subsection pass (one called with a target name) makes no Output Sink
\* write while it walks its sections and calls no further pass, whatever the
\* block sizes and the first bytes of a data block are; its only write is the
\* payload under the target name, made right before it returns 0.
C7_ChunkPassWritesOnlyPayload ==
    \A i \in Calls :
        trace[i].target # "" =>
            /\ \A k \in (i + 1)..SegEnd(i) :
                /\ trace[k].e # "call"
                /\ ~IsRead(k, "magic")
                /\ IsWrite(k) =>
                      /\ trace[k].name = trace[i].target
                      /\ k + 1 = RetOf(i)
                      /\ trace[k + 1].r = 0
            /\ (RetOf(i) # 0 /\ trace[RetOf(i)].r = 0) => IsWrite(RetOf(i) - 1)

\* a subsection pass has walked a section with four non-empty blocks whose
\* data begins with "PFS.HDR." and has returned after its one write
C7_Witness ==
    \E i \in Calls :
        /\ trace[i].target # ""
        /\ RetOf(i) # 0 /\ trace[RetOf(i)].r = 0
        /\ \E k \in PassEvents(i) :
            /\ IsRead(k, "section")
            /\ HeaderAt(Container(i), trace[i].base, trace[k].lo).sz
                 = <<ChunkPrefix + 3, 1, 1, 1>>
            /\ HeaderAt(Container(i), trace[i].base, trace[k].lo).inner.sig
        /\ Cardinality({k \in PassEvents(i) : IsWrite(k)}) = 1

----------------------------------------------------------------------------
\* the passes called for a data block that begins with "PFS.HDR."
NestedCalls == {i \in Calls : trace[i].d = 2}

\* the section of the file whose data block the pass called at i parses
SectionOf(i) == HeaderAt(file.c, 0, trace[i].base - SectionHeaderSize)

\* the events before the nested call at i: the section header read, the
\* write of the raw data block as section_<index>_<version>data, the read of
\* its first 8 bytes; the call names section_<index>_<version>payload
RawWrittenBeforeCall(i) ==
    LET sec == SectionOf(i)
        v == DecodeVersion(sec.vt, sec.vv)
    IN  /\ i > 3
        /\ sec.inner.sig /\ sec.sz[1] # 0
        /\ IsRead(i - 3, "section") /\ trace[i - 3].d = 1
        /\ trace[i - 3].lo = trace[i].base - SectionHeaderSize
        /\ IsWrite(i - 2) /\ trace[i - 2].d = 1
        /\ trace[i - 2].name = FileName(trace[i - 3].num, v, "data")
        /\ trace[i - 2].src = <<[lo |-> trace[i].base, n |-> sec.sz[1]]>>
        /\ IsRead(i - 1, "magic") /\ trace[i - 1].d = 1
        /\ trace[i].size = sec.sz[1]
        /\ trace[i].target = FileName(trace[i - 3].num, v, "payload")

\* the byte ranges of the chunks the pass called at i has collected
ChunkRanges(i) ==
    {[lo |-> trace[k].lo, n |-> IF trace[k].n < 0 THEN 0 ELSE trace[k].n] :
        k \in {q \in PassEvents(i) : IsRead(q, "chunk")}}

\* C3 as amended: outside a subsection, a section whose non-empty data block
\* begins with "PFS.HDR." always has its raw data block written as
\* section_<index>_<version>data before the nested pass starts; the write of
\* section_<index>_<version>payload, carrying the chunks the nested pass has
\* collected, follows as the last act of the nested pass exactly when that
\* pass returns 0, and a nested pass that returns 1 writes nothing.
C3_DataBeforeNestedPayloadOnSuccess ==
    /\ \A k \in 1..Len(trace) :
          (IsRead(k, "magic") /\ trace[k].d = 1
           /\ HeaderAt(file.c, 0, trace[k].lo - SectionHeaderSize).inner.sig)
          => (k < Len(trace) /\ trace[k + 1].e = "call")
    /\ \A i \in NestedCalls :
          /\ RawWrittenBeforeCall(i)
          /\ \A k \in (i + 1)..SegEnd(i) :
                IsWrite(k) => /\ trace[k].name = trace[i].target
                              /\ k + 1 = RetOf(i)
                              /\ trace[k + 1].r = 0
          /\ (RetOf(i) # 0 /\ trace[RetOf(i)].r = 0) =>
                /\ IsWrite(RetOf(i) - 1)
                /\ {trace[RetOf(i) - 1].src[q] :
                      q \in 1..Len(trace[RetOf(i) - 1].src)} = ChunkRanges(i)

\* the second section of a file held a nested container, whose pass collected
\* a chunk with bytes and returned 0 after writing the payload
C3_Witness ==
    \E i \in NestedCalls :
        /\ RetOf(i) # 0 /\ trace[RetOf(i)].r = 0
        /\ trace[i - 3].num = 1
        /\ IsWrite(RetOf(i) - 1)
        /\ \E r \in ChunkRanges(i) : r.n > 0
        /\ IsWrite(i - 2)

\* C3 as stated: once the file has been processed, every section whose data
\* block (of at least 8 bytes) begins with "PFS.HDR." has caused a data write
\* and, after it, a payload write.
C3_AlwaysTwoWrites ==
    result # <<>> =>
        \A i \in NestedCalls :
            trace[i].size >= SignatureSize =>
                /\ IsWrite(i - 2)
                /\ \E k \in (i + 1)..Len(trace) :
                      IsWrite(k) /\ trace[k].name = trace[i].target

----------------------------------------------------------------------------
\* the writes the rest of the iteration makes for the section of the nested
\* pass called at i: its non-empty sign, meta and mtsg blocks, in this order
RestWrites(i) ==
    LET sec == SectionOf(i)
        v == DecodeVersion(sec.vt, sec.vv)
        num == trace[i - 3].num
        p2 == trace[i].base + sec.sz[1]
        p3 == p2 + sec.sz[2]
        p4 == p3 + sec.sz[3]
        W(suffix, lo, n) ==
            IF n = 0 THEN <<>>
            ELSE <<[name |-> FileName(num, v, suffix), src |-> <<[lo |-> lo, n |-> n]>>]>>
    IN  W("sign", p2, sec.sz[2]) \o W("meta", p3, sec.sz[3])
        \o W("mtsg", p4, sec.sz[4])

\* C6: a nested pass that returns the failure value does not stop its caller:
\* the raw data file of the section was written before the call; after the
\* return the caller writes the section's non-empty sign, meta and mtsg
\* blocks, then reads the next section header right after the section (or
\* returns 0 when the section was the last), and the result of the caller is
\* never the failure value.
C6_NestedFailureDoesNotStopParent ==
    \A i \in NestedCalls :
        (RetOf(i) # 0 /\ trace[RetOf(i)].r = 1) =>
            LET exp == RestWrites(i)
                after == SubSeq(trace, RetOf(i) + 1, Len(trace))
                next == trace[i].base - SectionHeaderSize + Span(SectionOf(i))
            IN  /\ RawWrittenBeforeCall(i)
                /\ result # <<>> => result = <<0>>
                /\ IF after = <<>> /\ stack # <<>> /\ stack[1].pc = "rest" THEN TRUE
                   ELSE /\ \A q \in 1..Len(exp) :
                              q <= Len(after) =>
                                 /\ after[q].e = "write" /\ after[q].d = 1
                                 /\ after[q].name = exp[q].name
                                 /\ after[q].src = exp[q].src
                        /\ Len(after) < Len(exp) => crashed
                        /\ Len(after) = Len(exp) =>
                              /\ stack # <<>> /\ stack[1].pc = "loop"
                              /\ stack[1].hdr = next
                        /\ Len(after) > Len(exp) =>
                              LET ev == after[Len(exp) + 1]
                              IN  IF next < HeaderSize + file.c.ds
                                  THEN /\ ev.e = "read" /\ ev.what = "section"
                                       /\ ev.d = 1 /\ ev.lo = next
                                  ELSE ev.e = "ret" /\ ev.d = 1 /\ ev.r = 0

\* a nested container with an unsupported header version was rejected; its
\* section's three other blocks were written, the next section was read and
\* the file was processed with result 0
C6_Witness ==
    \E i \in NestedCalls :
        /\ RetOf(i) # 0 /\ trace[RetOf(i)].r = 1
        /\ Container(i).hv = 2
        /\ Len(RestWrites(i)) = 3
        /\ \E k \in (RetOf(i) + 1)..Len(trace) : IsRead(k, "section")
        /\ result = <<0>>

----------------------------------------------------------------------------
\* C2: in the section walk of a pass, when fewer than 72 bytes remain before
\* dataEnd or the blocks a section header declares extend past dataEnd, the
\* pass ends with an error, no access of the walk reaches dataEnd or beyond,
\* and no file is written for that section.
C2_TruncatedWalkStops ==
    \A i \in Calls :
        LET dataEnd == trace[i].base + HeaderSize + Container(i).ds
        IN  \A k \in PassEvents(i) :
                /\ (trace[k].e = "read" /\ trace[k].what \notin {"header", "footer"})
                      => trace[k].lo + trace[k].n <= dataEnd
                /\ (IsWrite(k) /\ trace[k].name # trace[i].target)
                      => trace[k].src[1].lo + trace[k].src[1].n <= dataEnd
                /\ (IsRead(k, "section")
                    /\ trace[k].lo + Span(HeaderAt(Container(i), trace[i].base, trace[k].lo))
                          > dataEnd)
                      => (RetOf(i) # 0 => trace[RetOf(i)].r # 0)

\* C9: within one pass the section index is 0 for the first section and one
\* more for each further section, so that no two sections of a pass have the
\* same index and no two section files of a pass have the same name.
C9_SectionIndexesDistinct ==
    \A i \in Calls :
        LET R == SectionReads(i)
            W == {k \in PassEvents(i) : IsWrite(k) /\ trace[k].name # trace[i].target}
        IN  /\ \A k \in 1..Len(R) : R[k].num = k - 1
            /\ Cardinality({trace[k].name : k \in W}) = Cardinality(W)

\* C10: in a subsection pass, the order number and the chunk bytes of every
\* non-empty data block of size S are read inside the block: the order number
\* at [0x3E, 0x40) and the bytes at [0x248, S), S - 0x248 of them.
C10_ChunkReadsInsideBlock ==
    \A k \in 1..Len(trace) :
        (IsRead(k, "order") \/ IsRead(k, "chunk")) =>
            /\ trace[k].n >= 0
            /\ trace[k].blk[1] <= trace[k].lo
            /\ trace[k].lo + trace[k].n <= trace[k].blk[1] + trace[k].blk[2]

----------------------------------------------------------------------------
\* the chunks the pass called at i has collected, in the order met
CollectedChunks(i) ==
    LET IsOrder(ev) == ev.d = trace[i].d /\ ev.e = "read" /\ ev.what = "order"
        IsChunk(ev) == ev.d = trace[i].d /\ ev.e = "read" /\ ev.what = "chunk"
        orders == SelectSeq(SubSeq(trace, i + 1, SegEnd(i)), IsOrder)
        datas == SelectSeq(SubSeq(trace, i + 1, SegEnd(i)), IsChunk)
    IN  [q \in 1..Len(datas) |->
            [orderNum |-> orders[q].val,
             data |-> [lo |-> datas[q].lo, n |-> datas[q].n]]]

\* x placed after every chunk of sorted whose order number is not larger
InsertStable(sorted, x) ==
    LET before == {q \in 1..Len(sorted) : sorted[q].orderNum <= x.orderNum}
        m == Cardinality(before)
    IN  SubSeq(sorted, 1, m) \o <<x>> \o SubSeq(sorted, m + 1, Len(sorted))

RECURSIVE StableSort(_)
\* ascending by order number, equal order numbers in the order met
StableSort(chunks) ==
    IF chunks = <<>> THEN <<>>
    ELSE InsertStable(StableSort(SubSeq(chunks, 1, Len(chunks) - 1)),
                      chunks[Len(chunks)])

----------------------------------------------------------------------------
(* The version decoder alone: every combination of four tags and values.   *)

\* 'A', 'N', ' ', NUL and a tag that is none of them ('B')
VersionTags == {TagA, TagN, TagSpace, TagNul, 66}
VersionValues == {0, 10, 65535}

\* the examples of the specification: "2." and "2.10."
ExampleStop == [vt |-> <<TagA, TagSpace, TagN, TagA>>, vv |-> <<2, 0, 10, 5>>]
ExampleNul == [vt |-> <<TagA, TagN, TagNul, TagA>>, vv |-> <<2, 10, 0, 1>>]

VersionInputs ==
    {[vt |-> t, vv |-> v] :
        t \in [1..VersionComponents -> VersionTags],
        v \in [1..VersionComponents -> VersionValues]}
    \cup {ExampleStop, ExampleNul}

InitVersion ==
    /\ vin \in VersionInputs
    /\ vout = <<>>
    /\ file = NoFile
    /\ stack = <<>>
    /\ trace = <<>>
    /\ result = <<>>
    /\ crashed = FALSE

\* the version of one section header is decoded
Decode ==
    /\ vout = <<>>
    /\ vout' = DecodeVersion(vin.vt, vin.vv)
    /\ UNCHANGED <<file, stack, trace, result, crashed, vin>>

NextVersion == Decode

SpecVersion == InitVersion /\ [][NextVersion]_vars

\* the components before the first ' ' or NUL tag that carry an 'A' or 'N' tag
KeptComponents(v) ==
    LET stops == {i \in 1..VersionComponents : v.vt[i] \in {TagSpace, TagNul}}
        stop == IF stops = {} THEN VersionComponents + 1
                ELSE CHOOSE i \in stops : \A j \in stops : i <= j
        Kept(i) == i < stop /\ v.vt[i] \in {TagA, TagN}
    IN  SelectSeq([i \in 1..VersionComponents |-> i], Kept)

RECURSIVE SplitAtDots(_, _, _)
\* the pieces of s that end with a '.', without the '.'; piece is the piece
\* being read and done the pieces read; a rest without a '.' is kept apart
SplitAtDots(s, piece, done) ==
    IF s = <<>> THEN [pieces |-> done, rest |-> piece]
    ELSE IF s[1] = "." THEN SplitAtDots(Tail(s), <<>>, Append(done, piece))
    ELSE SplitAtDots(Tail(s), Append(piece, s[1]), done)

UpperDigits == <<"0","1","2","3","4","5","6","7","8","9","A","B","C","D","E","F">>

RECURSIVE NumberRead(_, _, _)
\* the number the digits write in the base, read after acc; -1 when a
\* character is no digit of the base
NumberRead(digits, base, acc) ==
    IF digits = <<>> THEN acc
    ELSE IF \E d \in 1..base : UpperDigits[d] = digits[1]
         THEN NumberRead(Tail(digits), base,
                         acc * base + (CHOOSE d \in 1..base : UpperDigits[d] = digits[1]) - 1)
    ELSE -1

\* digits write the value in the base, in upper case and without leading zeros
Writes(digits, base, value) ==
    /\ digits # <<>>
    /\ Len(digits) > 1 => digits[1] # "0"
    /\ NumberRead(digits, base, 0) = value

\* C8: the version fragment is made of the four (tag, value) components from
\* left to right: 'A' gives the value in upper-case hexadecimal and a '.', 'N'
\* the value in decimal and a '.', ' ' or NUL ends the fragment, any other tag
\* is skipped; an empty fragment is replaced by ".".  The examples give "2."
\* and "2.10.".
C8_VersionDecoding ==
    /\ vout # <<>> =>
          LET kept == KeptComponents(vin)
              split == SplitAtDots(vout, <<>>, <<>>)
          IN  IF kept = <<>> THEN vout = <<".">>
              ELSE /\ split.rest = <<>>
                   /\ Len(split.pieces) = Len(kept)
                   /\ \A q \in 1..Len(kept) :
                         Writes(split.pieces[q],
                                IF vin.vt[kept[q]] = TagA THEN 16 ELSE 10,
                                vin.vv[kept[q]])
    /\ (vin = ExampleStop /\ vout # <<>>) => vout = <<"2", ".">>
    /\ (vin = ExampleNul /\ vout # <<>>) => vout = <<"2", ".", "1", "0", ".">>

\* the second example has been decoded
C8_Witness == vin = ExampleNul /\ vout = <<"2", ".", "1", "0", ".">>

====
